---- MODULE Spec2Model ----
(***************************************************************************)
(* Hierarchical agent teams of text_writer: three supervised state graphs  *)
(* (research team, document-authoring team, top-level graph of teams), the *)
(* per-field state reducers, the sub-graph mounting chain                  *)
(* get_last_message | enter_chain | graph | join_graph, and the executor   *)
(* that drives a compiled graph hop by hop under a step budget.            *)
(*                                                                         *)
(* StateGraph, START, END, agent_node and create_team_supervisor reach     *)
(* agents.py through `from utilities import *`; utilities.py is not part   *)
(* of the available sources, so the builder, the executor, the worker node *)
(* boundary and the supervisor are modelled from the design document.      *)
(***************************************************************************)
EXTENDS Integers, Sequences, FiniteSets, TLC

VARIABLES
    step_limit,   \* the run's step budget (config "recursion_limit")
    outer,        \* execution context of super_graph
    inner,        \* execution context of the team graph being run, or NoCtx
    mstate,       \* reducer fold: the state being merged into
    minit,        \* reducer fold: the state the fold started from
    mlog,         \* reducer fold: the ordered partial updates applied so far
    bnodes,       \* builder: node names registered so far, in order
    bedges,       \* builder: unconditional edges registered so far
    bmapping,     \* builder: destinations of the conditional mapping
    bstatus,      \* builder: "building" | "compiled" | "CompileError"
    bhops,        \* builder: hops executed on the built graph
    store,        \* artifact store: WORKING_DIRECTORY and the files in it
    last,         \* artifact store: the last store operation and its result
    sfiles,       \* shared stores: the files of each working directory
    sruns         \* shared stores: the store operation each run is in

vars == <<step_limit, outer, inner, mstate, minit, mlog,
          bnodes, bedges, bmapping, bstatus, bhops, store, last, sfiles,
          sruns>>
execVars == <<step_limit, outer, inner>>
mergeVars == <<mstate, minit, mlog>>
buildVars == <<bnodes, bedges, bmapping, bstatus, bhops>>
storeVars == <<store, last>>
sharedVars == <<sfiles, sruns>>

(***************************************************************************)
(* Bounds of the model.                                                    *)
(***************************************************************************)
MaxStepLimit == 5
MaxUpdates == 2
MaxBuildNodes == 2
MaxBuildEdges == 2
MaxBuildHops == 2

(***************************************************************************)
(* Names.                                                                  *)
(***************************************************************************)
START == "__start__"
END == "__end__"
FINISH == "FINISH"
Unset == "<unset>"
\* A routing output that is in no roster and is not FINISH.
Outside == "C"
\* The seed message of a run.
Seed == "x"

Fields == {"messages", "team_members", "next", "current_files"}

(***************************************************************************)
(* Messages.  HumanMessage(content=...) carries no name; a worker's result *)
(* is a HumanMessage carrying the worker's name.                           *)
(***************************************************************************)
HumanMessage(content) == [name |-> "human", content |-> content]
NamedMessage(content, name) == [name |-> name, content |-> content]

NoMessage == [name |-> "none", content |-> "none"]

Last(s) == s[Len(s)]

(***************************************************************************)
(* The state schemas and their reducers.  `messages` is declared with      *)
(* operator.add; every other field carries no reducer and is overwritten.  *)
(***************************************************************************)
MessagesReducerReplace(old, new) == new

MessagesReducerPrepend(old, new) == new \o old

MessagesReducer(old, new) == old \o new

ReplaceReducer(old, new) == new

EmptyState ==
    [messages |-> << >>, team_members |-> Unset, next |-> Unset,
     current_files |-> Unset]

\* Merge one partial update (a record over a subset of Fields) into a state.
Merge(s, u) ==
    [messages      |-> IF "messages" \in DOMAIN u
                       THEN MessagesReducer(s.messages, u.messages)
                       ELSE s.messages,
     team_members  |-> IF "team_members" \in DOMAIN u
                       THEN ReplaceReducer(s.team_members, u.team_members)
                       ELSE s.team_members,
     next          |-> IF "next" \in DOMAIN u
                       THEN ReplaceReducer(s.next, u.next)
                       ELSE s.next,
     current_files |-> IF "current_files" \in DOMAIN u
                       THEN ReplaceReducer(s.current_files, u.current_files)
                       ELSE s.current_files]

(***************************************************************************)
(* The three graphs of agents.py.  A graph is its registered nodes, its    *)
(* unconditional edges (pairs), the node carrying the conditional edge,    *)
(* the conditional edge's key -> destination mapping and the roster the    *)
(* supervisor was created with.                                            *)
(***************************************************************************)
ResearchNodes ==
    {"WebScraper", "Search", "ReferencesScraper", "Translator", "supervisor"}

ResearchEdgesScraperEnds ==
    {<<"WebScraper", END>>, <<"Search", "supervisor">>,
     <<"ReferencesScraper", "supervisor">>, <<"Translator", "supervisor">>,
     <<START, "supervisor">>}

ResearchEdges ==
    {<<"WebScraper", "supervisor">>, <<"Search", "supervisor">>,
     <<"ReferencesScraper", "supervisor">>, <<"Translator", "supervisor">>,
     <<START, "supervisor">>}

ResearchMappingLoose ==
    [k \in {"WebScraper", "Search", "ReferencesScraper", "Translator", FINISH,
            Outside}
        |-> IF k = FINISH THEN END ELSE IF k = Outside THEN "supervisor" ELSE k]

ResearchMapping ==
    [k \in {"WebScraper", "Search", "ReferencesScraper", "Translator", FINISH}
        |-> IF k = FINISH THEN END ELSE k]

ResearchRoster == {"WebScraper", "ReferencesScraper", "Translator", "Search"}

AuthoringNodes == {"DocWriter", "NoteTaker", "supervisor"}

AuthoringEdgesNoteTakerEnds ==
    {<<"DocWriter", "supervisor">>, <<"NoteTaker", END>>,
     <<START, "supervisor">>}

AuthoringEdges ==
    {<<"DocWriter", "supervisor">>, <<"NoteTaker", "supervisor">>,
     <<START, "supervisor">>}

AuthoringMappingSwapped ==
    [k \in {"DocWriter", "NoteTaker", FINISH}
        |-> IF k = FINISH THEN END
            ELSE IF k = "DocWriter" THEN "NoteTaker" ELSE "DocWriter"]

AuthoringMapping ==
    [k \in {"DocWriter", "NoteTaker", FINISH} |-> IF k = FINISH THEN END ELSE k]

AuthoringRoster == {"DocWriter", "NoteTaker"}

SuperNodes == {"ResearchTeam", "PaperWritingTeam", "supervisor"}

SuperEdgesFanOut ==
    {<<"ResearchTeam", "supervisor">>, <<"PaperWritingTeam", "supervisor">>,
     <<"ResearchTeam", "PaperWritingTeam">>, <<START, "supervisor">>}

SuperEdges ==
    {<<"ResearchTeam", "supervisor">>, <<"PaperWritingTeam", "supervisor">>,
     <<START, "supervisor">>}

SuperMappingNoResearch ==
    [k \in {"PaperWritingTeam", FINISH} |-> IF k = FINISH THEN END ELSE k]

SuperMapping ==
    [k \in {"PaperWritingTeam", "ResearchTeam", FINISH}
        |-> IF k = FINISH THEN END ELSE k]

SuperRoster == {"ResearchTeam", "PaperWritingTeam"}

GraphNames == {"research", "authoring", "super"}

Graph(g) ==
    CASE g = "research" ->
            [nodes |-> ResearchNodes, edges |-> ResearchEdges,
             cond |-> "supervisor", mapping |-> ResearchMapping,
             roster |-> ResearchRoster]
      [] g = "authoring" ->
            [nodes |-> AuthoringNodes, edges |-> AuthoringEdges,
             cond |-> "supervisor", mapping |-> AuthoringMapping,
             roster |-> AuthoringRoster]
      [] g = "super" ->
            [nodes |-> SuperNodes, edges |-> SuperEdges,
             cond |-> "supervisor", mapping |-> SuperMapping,
             roster |-> SuperRoster]

\* The routing function of every conditional edge: lambda x: x["next"].
RouterByAuthor(x) ==
    IF x.messages = << >> THEN FINISH ELSE Last(x.messages).name

Router(x) == x.next

\* The team graph mounted behind each node of super_graph.
TeamGraph(n) == IF n = "ResearchTeam" THEN "research" ELSE "authoring"

NodeKind(g, n) ==
    IF n = Graph(g).cond THEN "supervisor"
    ELSE IF g = "super" THEN "subgraph" ELSE "worker"

(***************************************************************************)
(* Sub-graph mounting: get_last_message | enter_chain | graph | join_graph *)
(***************************************************************************)
get_first_message(state) == state.messages[1].content

get_last_message(state) == Last(state.messages).content

\* enter_chain as bound into research_chain (one argument).
enter_chain_research(message) == [messages |-> <<HumanMessage(message)>>]

\* enter_chain as bound into authoring_chain: members = authoring_graph.nodes.
AuthoringMembers == "DocWriter, NoteTaker, supervisor"

enter_chain_authoring(message) ==
    [messages |-> <<HumanMessage(message)>>, team_members |-> AuthoringMembers]

ProjectIn(team, state) ==
    IF TeamGraph(team) = "research"
    THEN enter_chain_research(get_last_message(state))
    ELSE enter_chain_authoring(get_last_message(state))

join_graph_all(response) == [messages |-> response.messages]

join_graph(response) == [messages |-> <<Last(response.messages)>>]

(***************************************************************************)
(* Worker capabilities.  "ok" is a text result; "err" is an error text the *)
(* tool itself returns (google_translate's except branch, edit_document's  *)
(* out-of-range line); "exc" is an exception leaving the tool              *)
(* (scrape_webpages on a non-list, a missing file in read_document or      *)
(* edit_document, a failing search or page load).                          *)
(***************************************************************************)
ToolOutcomes(n) ==
    CASE n = "Search"            -> {"ok", "exc"}
      [] n = "WebScraper"        -> {"ok", "exc"}
      [] n = "ReferencesScraper" -> {"ok", "exc"}
      [] n = "Translator"        -> {"ok", "err", "exc"}
      [] n = "DocWriter"         -> {"ok", "err", "exc"}
      [] n = "NoteTaker"         -> {"ok", "exc"}

Failures == {"err", "exc"}

\* The name each worker node's executable was bound with
\* (functools.partial(agent_node, agent=..., name=...)), by the node name it
\* is registered under.
WorkerNameCrossed(n) ==
    CASE n = "Search"            -> "Search"
      [] n = "WebScraper"        -> "Search"
      [] n = "ReferencesScraper" -> "ReferencesScraper"
      [] n = "Translator"        -> "Translator"
      [] n = "DocWriter"         -> "DocWriter"
      [] n = "NoteTaker"         -> "NoteTaker"

WorkerName(n) ==
    CASE n = "Search"            -> "Search"
      [] n = "WebScraper"        -> "WebScraper"
      [] n = "ReferencesScraper" -> "ReferencesScraper"
      [] n = "Translator"        -> "Translator"
      [] n = "DocWriter"         -> "DocWriter"
      [] n = "NoteTaker"         -> "NoteTaker"

\* The node boundary: whatever the capability did becomes one Message
\* attributed to the worker.
agent_node(o, name) == [messages |-> <<NamedMessage(o, name)>>]

\* What a supervisor may answer: a roster member, FINISH, or (the model's
\* answer not being constrained by the graph) a name outside the roster.
SupervisorOutputs(g) == Graph(g).roster \cup {FINISH, Outside}

supervisor_node(x) == [next |-> x]

(***************************************************************************)
(* Execution contexts.  One context per running graph: the accumulated     *)
(* state, the step counter, the nodes scheduled for the next hop (tasks),  *)
(* the nodes executing now (active), the partial updates returned and not  *)
(* yet merged (writes), the keys of the chunks emitted so far (trace), the *)
(* last emitted snapshot (snap), the last message a supervisor was invoked *)
(* on (seen) and the answers the supervisor gave (decisions).  node is the *)
(* node of the parent graph the context runs behind.                       *)
(***************************************************************************)
RecursionLimitExceeded == "RecursionLimitExceeded"
RoutingError == "RoutingError"

NoCtx ==
    [graph |-> "none", node |-> "none", state |-> EmptyState, counter |-> 0,
     status |-> "none", error |-> "none", origin |-> "none", tasks |-> {},
     active |-> {}, writes |-> << >>, trace |-> << >>, snap |-> EmptyState,
     seen |-> NoMessage, decisions |-> << >>]

EntryTasks(g) == {t \in Graph(g).nodes : <<START, t>> \in Graph(g).edges}

NewCtx(g, node, input) ==
    [graph |-> g, node |-> node, state |-> Merge(EmptyState, input),
     counter |-> 0, status |-> "running", error |-> "none", origin |-> "none",
     tasks |-> EntryTasks(g), active |-> {}, writes |-> << >>,
     trace |-> << >>, snap |-> Merge(EmptyState, input), seen |-> NoMessage,
     decisions |-> << >>]

ExceedsLimitEarly(k, limit) == k >= limit

ExceedsLimitLate(k, limit) == k > limit + 1

ExceedsLimit(k, limit) == k > limit

\* A hop begins: the step counter is advanced and checked against the budget
\* before any scheduled node is invoked.
BeginCtx(c, limit) ==
    IF ExceedsLimit(c.counter + 1, limit)
    THEN [c EXCEPT !.counter = c.counter + 1, !.status = "failed",
                   !.error = RecursionLimitExceeded, !.origin = "self"]
    ELSE [c EXCEPT !.counter = c.counter + 1, !.active = c.tasks,
                   !.tasks = {}]

\* A node returns its partial update.
CompleteNode(c, n, u) ==
    [c EXCEPT !.active = c.active \ {n},
              !.writes = Append(c.writes, <<n, u>>),
              !.seen = IF NodeKind(c.graph, n) = "supervisor"
                          /\ c.state.messages # << >>
                       THEN Last(c.state.messages) ELSE c.seen,
              !.decisions = IF NodeKind(c.graph, n) = "supervisor"
                            THEN Append(c.decisions, u.next)
                            ELSE c.decisions]

RECURSIVE ApplyWrites(_, _)
ApplyWrites(s, w) ==
    IF w = << >> THEN s ELSE ApplyWrites(Merge(s, w[1][2]), Tail(w))

Ran(w) == {w[i][1] : i \in DOMAIN w}

RanSeq(w) == [i \in DOMAIN w |-> w[i][1]]

\* The state a routing function is evaluated on.
RoutingInput(old, merged) == merged

RoutingFails(c, merged) ==
    /\ Graph(c.graph).cond \in Ran(c.writes)
    /\ Router(RoutingInput(c.state, merged)) \notin DOMAIN Graph(c.graph).mapping

Targets(c, merged) ==
    {t \in Graph(c.graph).nodes \cup {END} :
        \E n \in Ran(c.writes) : <<n, t>> \in Graph(c.graph).edges}
    \cup
    (IF Graph(c.graph).cond \in Ran(c.writes)
     THEN {Graph(c.graph).mapping[Router(RoutingInput(c.state, merged))]}
     ELSE {})

\* The hop ends: merge the returned updates with the reducers, emit the
\* snapshot, then resolve the next node from the merged state.
CommitCtx(c) ==
    LET merged == ApplyWrites(c.state, c.writes)
        emitted == [c EXCEPT !.state = merged, !.snap = merged,
                             !.writes = << >>,
                             !.trace = c.trace \o RanSeq(c.writes)]
    IN  IF RoutingFails(c, merged)
        THEN [emitted EXCEPT !.status = "failed", !.error = RoutingError,
                             !.origin = "self"]
        ELSE IF Targets(c, merged) \subseteq {END}
        THEN [emitted EXCEPT !.status = "done",
                             !.trace = Append(emitted.trace, END)]
        ELSE [emitted EXCEPT !.tasks = Targets(c, merged) \ {END}]

Ready(c) ==
    c.status = "running" /\ c.active = {} /\ c.writes = << >> /\ c.tasks # {}

(***************************************************************************)
(* The run of agents.py: super_graph.stream(seed, recursion_limit).        *)
(***************************************************************************)
SeedInput == [messages |-> <<HumanMessage(Seed)>>]

ExecInit ==
    /\ step_limit \in 1..MaxStepLimit
    /\ outer = NewCtx("super", "none", SeedInput)
    /\ inner = NoCtx

OuterBegin ==
    /\ Ready(outer)
    /\ outer' = BeginCtx(outer, step_limit)
    /\ UNCHANGED <<step_limit, inner, mergeVars, buildVars, storeVars, sharedVars>>

OuterSupervisor ==
    /\ outer.status = "running"
    /\ \E n \in outer.active, x \in SupervisorOutputs(outer.graph) :
          /\ NodeKind(outer.graph, n) = "supervisor"
          /\ outer' = CompleteNode(outer, n, supervisor_node(x))
    /\ UNCHANGED <<step_limit, inner, mergeVars, buildVars, storeVars, sharedVars>>

\* Project-in: a team node starts its graph on the last outer message.
EnterTeam ==
    /\ outer.status = "running"
    /\ inner.status = "none"
    /\ \E n \in outer.active :
          /\ NodeKind(outer.graph, n) = "subgraph"
          /\ inner' = NewCtx(TeamGraph(n), n, ProjectIn(n, outer.state))
    /\ UNCHANGED <<step_limit, outer, mergeVars, buildVars, storeVars, sharedVars>>

\* Project-out: the team node returns join_graph of the inner final state.
ExitTeam ==
    /\ outer.status = "running"
    /\ inner.status = "done"
    /\ outer' = CompleteNode(outer, inner.node, join_graph(inner.state))
    /\ inner' = NoCtx
    /\ UNCHANGED <<step_limit, mergeVars, buildVars, storeVars, sharedVars>>

\* An error raised inside the team graph leaves the team node and the
\* outer run unhandled.
PropagateFailure ==
    /\ outer.status = "running"
    /\ inner.status = "failed"
    /\ outer' = [outer EXCEPT !.status = "failed", !.error = inner.error,
                              !.origin = "inner"]
    /\ UNCHANGED <<step_limit, inner, mergeVars, buildVars, storeVars, sharedVars>>

OuterCommit ==
    /\ outer.status = "running"
    /\ outer.active = {}
    /\ outer.writes # << >>
    /\ outer' = CommitCtx(outer)
    /\ UNCHANGED <<step_limit, inner, mergeVars, buildVars, storeVars, sharedVars>>

InnerBegin ==
    /\ Ready(inner)
    /\ inner' = BeginCtx(inner, step_limit)
    /\ UNCHANGED <<step_limit, outer, mergeVars, buildVars, storeVars, sharedVars>>

InnerSupervisor ==
    /\ inner.status = "running"
    /\ \E n \in inner.active, x \in SupervisorOutputs(inner.graph) :
          /\ NodeKind(inner.graph, n) = "supervisor"
          /\ inner' = CompleteNode(inner, n, supervisor_node(x))
    /\ UNCHANGED <<step_limit, outer, mergeVars, buildVars, storeVars, sharedVars>>

InnerWorker ==
    /\ inner.status = "running"
    /\ \E n \in inner.active :
          /\ NodeKind(inner.graph, n) = "worker"
          /\ \E o \in ToolOutcomes(n) :
                inner' = CompleteNode(inner, n, agent_node(o, WorkerName(n)))
    /\ UNCHANGED <<step_limit, outer, mergeVars, buildVars, storeVars, sharedVars>>

InnerCommit ==
    /\ inner.status = "running"
    /\ inner.active = {}
    /\ inner.writes # << >>
    /\ inner' = CommitCtx(inner)
    /\ UNCHANGED <<step_limit, outer, mergeVars, buildVars, storeVars, sharedVars>>

(***************************************************************************)
(* The artifact store of tools.py: the files of WORKING_DIRECTORY.  A      *)
(* file's content is a string, here a sequence of one-character strings,   *)
(* so that readlines, writelines and "\n".join do to it what they do in    *)
(* the code.                                                               *)
(***************************************************************************)
MaxLines == 1
MaxLine == 3
MaxInserts == 2

NL == "\n"

\* Optional[int]: None, or a supplied value.
None == << >>
Some(n) == <<n>>

\* The documents the writer works on, and all the paths of the store (the
\* note taker's outline is the other one).
Drafts == {"draft"}
DocNames == Drafts \cup {"notes"}

NoFile == [exists |-> FALSE, content |-> << >>]
File(content) == [exists |-> TRUE, content |-> content]

\* WORKING_DIRECTORY as TemporaryDirectory() leaves it: created and empty.
EmptyStore == [exists |-> TRUE, files |-> [n \in DocNames |-> NoFile]]

\* What opening WORKING_DIRECTORY / file_name for reading finds.
Lookup(s, name) == IF s.exists THEN s.files[name] ELSE NoFile

Min(S) == CHOOSE x \in S : \A y \in S : x <= y

\* file.readlines(): the lines with their terminators, the last one as it is.
RECURSIVE readlines(_)
readlines(s) ==
    IF s = << >> THEN << >>
    ELSE LET ends == {i \in DOMAIN s : s[i] = NL}
             cut == IF ends = {} THEN Len(s) ELSE Min(ends)
         IN  <<SubSeq(s, 1, cut)>> \o readlines(SubSeq(s, cut + 1, Len(s)))

\* file.writelines(lines): the strings one after the other, nothing added.
RECURSIVE writelines(_)
writelines(lines) ==
    IF lines = << >> THEN << >> ELSE Head(lines) \o writelines(Tail(lines))

\* sep.join(lines)
RECURSIVE join(_, _)
join(sep, lines) ==
    IF lines = << >> THEN << >>
    ELSE IF Len(lines) = 1 THEN Head(lines)
    ELSE Head(lines) \o <<sep>> \o join(sep, Tail(lines))

\* lines[start:end] for start and end that are None or not negative.
Slice(lines, start, end) ==
    LET lo == IF start = None THEN 0
              ELSE IF start[1] > Len(lines) THEN Len(lines) ELSE start[1]
        hi == IF end = None THEN Len(lines)
              ELSE IF end[1] > Len(lines) THEN Len(lines) ELSE end[1]
    IN  SubSeq(lines, lo + 1, hi)

\* What a store operation gives back: a returned text, the out-of-range
\* error text of edit_document (with the line number it names), or an
\* exception leaving the tool.
Returned(text) == [kind |-> "ok", text |-> text, line |-> 0]
OutOfRange(n) == [kind |-> "err", text |-> << >>, line |-> n]
FileNotFound == [kind |-> "exc", text |-> << >>, line |-> 0]

read_document(doc, start, end) ==
    IF ~doc.exists THEN FileNotFound
    ELSE LET lines == readlines(doc.content)
             start0 == IF start # None THEN Some(0) ELSE start
         IN  Returned(join(NL, Slice(lines, start0, end)))

\* [result, store after]
write_document(s, content, name) ==
    IF ~s.exists THEN [result |-> FileNotFound, store |-> s]
    ELSE [result |-> Returned(<< >>),
          store |-> [s EXCEPT !.files[name] = File(content)]]

Digit(i) == IF i = 1 THEN "1" ELSE IF i = 2 THEN "2" ELSE "3"

\* The file create_outline writes: one numbered line per point.
RECURSIVE outline(_, _)
outline(points, i) ==
    IF i > Len(points) THEN << >>
    ELSE <<Digit(i), ".", " ", points[i], NL>> \o outline(points, i + 1)

\* [result, store after]
create_outline(s, points, name) ==
    IF ~s.exists THEN [result |-> FileNotFound, store |-> s]
    ELSE [result |-> Returned(<< >>),
          store |-> [s EXCEPT !.files[name] = File(outline(points, 1))]]

\* sorted(inserts.items()): the keys in ascending order.
RECURSIVE sorted(_)
sorted(S) == IF S = {} THEN << >> ELSE <<Min(S)>> \o sorted(S \ {Min(S)})

\* lines.insert(line_number - 1, text)
list_insert(lines, line_number, text) ==
    SubSeq(lines, 1, line_number - 1) \o <<text>>
        \o SubSeq(lines, line_number, Len(lines))

\* The for loop of edit_document over the sorted insertions.
RECURSIVE insert_loop(_, _, _)
insert_loop(lines, keys, inserts) ==
    IF keys = << >> THEN [kind |-> "ok", lines |-> lines, line |-> 0]
    ELSE IF 1 <= Head(keys) /\ Head(keys) <= Len(lines) + 1
    THEN insert_loop(list_insert(lines, Head(keys),
                                 inserts[Head(keys)] \o <<NL>>),
                     Tail(keys), inserts)
    ELSE [kind |-> "err", lines |-> lines, line |-> Head(keys)]

edit_document_eager(s, name, inserts) ==
    IF ~Lookup(s, name).exists THEN [result |-> FileNotFound, store |-> s]
    ELSE LET r == insert_loop(readlines(Lookup(s, name).content),
                              sorted(DOMAIN inserts), inserts)
             saved == [s EXCEPT !.files[name] = File(writelines(r.lines))]
         IN  IF r.kind = "err"
             THEN [result |-> OutOfRange(r.line), store |-> saved]
             ELSE [result |-> Returned(<< >>), store |-> saved]

\* [result, store after]
edit_document(s, name, inserts) ==
    IF ~Lookup(s, name).exists THEN [result |-> FileNotFound, store |-> s]
    ELSE LET r == insert_loop(readlines(Lookup(s, name).content),
                              sorted(DOMAIN inserts), inserts)
         IN  IF r.kind = "err"
             THEN [result |-> OutOfRange(r.line), store |-> s]
             ELSE [result |-> Returned(<< >>),
                   store |-> [s EXCEPT !.files[name] =
                                           File(writelines(r.lines))]]

\* WORKING_DIRECTORY.rglob("*"): the relative paths of everything below the
\* directory (the tools create files only, directly in it).
rglob(s) == {n \in DocNames : s.exists /\ s.files[n].exists}

\* What the try block of prelude can leave in written_files: the paths in
\* the order the file system yields them, or nothing when listing raised
\* (except Exception: pass).
Listings(s) ==
    {[ok |-> TRUE, paths |-> l] :
        l \in {q \in [1..Cardinality(rglob(s)) -> DocNames] :
                  {q[i] : i \in DOMAIN q} = rglob(s)}}
    \cup {[ok |-> FALSE, paths |-> << >>]}

\* current_files: its leading text and the " - path" entries joined to it.
NeverListed == [text |-> Unset, entries |-> << >>]
NoFilesWritten == [text |-> "No files written.", entries |-> << >>]
FilesHeader == "\nBelow are files your team has written to the directory:\n"

\* WORKING_DIRECTORY.mkdir() when the directory does not exist.
mkdir(s) == IF ~s.exists THEN [s EXCEPT !.exists = TRUE] ELSE s

Entries(written_files) ==
    [i \in DOMAIN written_files |-> <<" - ", written_files[i]>>]

prelude_dropping(state, written_files) ==
    IF written_files = << >>
    THEN [EmptyState EXCEPT !.current_files = NoFilesWritten]
    ELSE [EmptyState EXCEPT !.current_files =
              [text |-> FilesHeader, entries |-> Entries(written_files)]]

\* The state prelude returns once written_files is computed:
\* {**state, "current_files": ...}.
prelude(state, written_files) ==
    IF written_files = << >>
    THEN [state EXCEPT !.current_files = NoFilesWritten]
    ELSE [state EXCEPT !.current_files =
              [text |-> FilesHeader, entries |-> Entries(written_files)]]

\* The states prelude is called on: the authoring state of a worker hop
\* (no node of the graph ever returns current_files).
PreludeStates ==
    {[messages |-> <<HumanMessage(Seed)>>, team_members |-> AuthoringMembers,
      next |-> n, current_files |-> NeverListed] : n \in AuthoringRoster}

\* No store operation yet.
NoOp ==
    [op |-> "none", name |-> "none", start |-> None, end |-> None,
     content |-> << >>, inserts |-> << >>, result |-> Returned(<< >>),
     before |-> EmptyStore,
     state_in |-> [EmptyState EXCEPT !.current_files = NeverListed],
     state_out |-> [EmptyState EXCEPT !.current_files = NeverListed],
     listed |-> [ok |-> FALSE, paths |-> << >>]]

StoreIdle == store = EmptyStore /\ last = NoOp

(***************************************************************************)
(* Two top-level runs.  WORKING_DIRECTORY is the TemporaryDirectory of the *)
(* process (auth.py): two runs of one process work in the same directory,  *)
(* runs of two processes in two.  The tools take no lock, so what one run  *)
(* does to a file is interleaved with the other run at the system calls:   *)
(* open("w") creates or truncates the file, the buffered text reaches it   *)
(* at offset 0 when the with block closes it.                              *)
(***************************************************************************)
Runs == {1, 2}
Dirs == {"tmp_a", "tmp_b"}

\* A run between store operations.
IdleRun(dir) ==
    [dir |-> dir, pc |-> "idle", op |-> "none", buf |-> << >>,
     ret |-> Returned(<< >>)]

\* What a file holds once `text` is written at offset 0 over `content`.
WriteAtStart(content, text) ==
    text \o SubSeq(content, Len(text) + 1, Len(content))

SharedIdle ==
    /\ sfiles = [d \in Dirs |-> NoFile]
    /\ sruns = [r \in Runs |-> IdleRun("tmp_a")]

MergeIdle == mstate = EmptyState /\ minit = EmptyState /\ mlog = << >>

BuildIdle ==
    /\ bnodes = << >> /\ bedges = {} /\ bmapping = {}
    /\ bstatus = "building" /\ bhops = 0

Init == ExecInit /\ MergeIdle /\ BuildIdle /\ StoreIdle /\ SharedIdle

Next ==
    \/ OuterBegin
    \/ OuterSupervisor
    \/ EnterTeam
    \/ ExitTeam
    \/ PropagateFailure
    \/ OuterCommit
    \/ InnerBegin
    \/ InnerSupervisor
    \/ InnerWorker
    \/ InnerCommit

Spec == Init /\ [][Next]_vars

ExecIdle == step_limit = 1 /\ outer = NoCtx /\ inner = NoCtx

(***************************************************************************)
(* The reducers on their own: any initial state, any ordered sequence of   *)
(* partial updates over the declared fields.                               *)
(***************************************************************************)
MsgA == NamedMessage("A", "A")
MsgB == NamedMessage("B", "B")

MessageLists == {<<MsgA>>, <<MsgB, MsgA>>}
NextValues == {"A", FINISH}
MemberValues == {"A, B"}
FileValues == {"No files written."}

\* A partial update: only the fields named in p.writes are written.
Partial(p) == [f \in p.writes |-> p[f]]

Picks ==
    [writes : SUBSET Fields, messages : MessageLists,
     team_members : MemberValues, next : NextValues,
     current_files : FileValues]

MergeInitStates ==
    {EmptyState,
     [messages |-> <<HumanMessage(Seed)>>, team_members |-> "A, B",
      next |-> "A", current_files |-> Unset]}

MergeInit ==
    /\ minit \in MergeInitStates
    /\ mstate = minit
    /\ mlog = << >>

ApplyUpdate ==
    /\ Len(mlog) < MaxUpdates
    /\ \E p \in Picks :
          /\ mstate' = Merge(mstate, Partial(p))
          /\ mlog' = Append(mlog, Partial(p))
    /\ UNCHANGED <<minit, execVars, buildVars, storeVars, sharedVars>>

\* Replaying the logged updates from the initial state.
Replay ==
    /\ mlog # << >>
    /\ mstate' = ApplyWrites(minit, [i \in DOMAIN mlog |-> <<"replay", mlog[i]>>])
    /\ UNCHANGED <<minit, mlog, execVars, buildVars, storeVars, sharedVars>>

InitMerge == ExecIdle /\ MergeInit /\ BuildIdle /\ StoreIdle /\ SharedIdle

NextMerge ==
    \/ ApplyUpdate
    \/ Replay

SpecMerge == InitMerge /\ [][NextMerge]_vars

(***************************************************************************)
(* The graph builder: add_node, add_edge, add_conditional_edges, compile.  *)
(* Names are drawn from a small universe that holds a name nobody          *)
(* registers, so that references can dangle.                               *)
(***************************************************************************)
BuildNames == {"A", "supervisor"}
Dangling == "Z"
MappingChoices == {{END}, {"A", END}, {"A", Dangling, END}}

Registered == {bnodes[i] : i \in DOMAIN bnodes}

add_node ==
    /\ bstatus = "building"
    /\ Len(bnodes) < MaxBuildNodes
    /\ \E n \in BuildNames : bnodes' = Append(bnodes, n)
    /\ UNCHANGED <<bedges, bmapping, bstatus, bhops, execVars, mergeVars, storeVars, sharedVars>>

add_edge ==
    /\ bstatus = "building"
    /\ Cardinality(bedges) < MaxBuildEdges
    /\ \E a \in BuildNames \cup {START}, b \in BuildNames \cup {Dangling, END} :
          bedges' = bedges \cup {<<a, b>>}
    /\ UNCHANGED <<bnodes, bmapping, bstatus, bhops, execVars, mergeVars, storeVars, sharedVars>>

add_conditional_edges ==
    /\ bstatus = "building"
    /\ bmapping = {}
    /\ \E m \in MappingChoices : bmapping' = m
    /\ UNCHANGED <<bnodes, bedges, bstatus, bhops, execVars, mergeVars, storeVars, sharedVars>>

DuplicateName == Cardinality(Registered) # Len(bnodes)

EntryPoints == {e \in bedges : e[1] = START}

DanglingEdges == {e \in bedges : e[2] \notin Registered \cup {END}}

DanglingDestinationsUnchecked == {}

DanglingDestinations == bmapping \ (Registered \cup {END})

\* compile(): the structural checks; the graph is frozen either way.
compile ==
    /\ bstatus = "building"
    /\ bstatus' = IF \/ DuplicateName
                     \/ Cardinality(EntryPoints) # 1
                     \/ DanglingEdges # {}
                     \/ DanglingDestinations # {}
                  THEN "CompileError" ELSE "compiled"
    /\ UNCHANGED <<bnodes, bedges, bmapping, bhops, execVars, mergeVars, storeVars, sharedVars>>

\* Only a compiled graph has an executor to drive.
run_hop ==
    /\ bstatus = "compiled"
    /\ bhops < MaxBuildHops
    /\ bhops' = bhops + 1
    /\ UNCHANGED <<bnodes, bedges, bmapping, bstatus, execVars, mergeVars, storeVars, sharedVars>>

InitBuild ==
    ExecIdle /\ MergeIdle /\ BuildIdle /\ StoreIdle /\ SharedIdle

NextBuild ==
    \/ add_node
    \/ add_edge
    \/ add_conditional_edges
    \/ compile
    \/ run_hop

SpecBuild == InitBuild /\ [][NextBuild]_vars

(***************************************************************************)
(* The store operations of one run, one after the other: prelude before a  *)
(* DocWriter or NoteTaker call, and the tools read_document,               *)
(* write_document, edit_document, on any arguments.                        *)
(***************************************************************************)
Letter(k) == IF k = 1 THEN "a" ELSE IF k = 2 THEN "b" ELSE "c"

\* k lines, each ended by a newline.
RECURSIVE Written(_)
Written(k) == IF k = 0 THEN << >> ELSE Written(k - 1) \o <<Letter(k), NL>>

Unended(s) == SubSeq(s, 1, Len(s) - 1)

\* The contents written: up to MaxLines lines, the last one with or without
\* its newline.
WriteContents ==
    {Written(k) : k \in 0..MaxLines}
        \cup {Unended(Written(k)) : k \in 1..MaxLines}

\* The texts inserted: the one for the smallest key is "x", the next "y",
\* then "z".
Text(i) == IF i = 1 THEN <<"x">> ELSE IF i = 2 THEN <<"y">> ELSE <<"z">>

Inserts(K) == [k \in K |-> Text(Cardinality({j \in K : j <= k}))]

\* Up to MaxInserts insertions at the line numbers 0..MaxLine.
InsertChoices ==
    {Inserts(K) :
        K \in {K \in SUBSET (0..MaxLine) : Cardinality(K) <= MaxInserts}}

\* The outlines the note taker saves.
PointChoices == {<< >>, <<"p">>}

RangeArgs == {None} \cup {Some(n) : n \in 0..MaxLine}

Prelude ==
    /\ \E state \in PreludeStates, l \in Listings(mkdir(store)) :
          /\ store' = mkdir(store)
          /\ last' = [NoOp EXCEPT !.op = "prelude", !.before = store,
                                  !.state_in = state, !.listed = l,
                                  !.state_out = prelude(state, l.paths)]
    /\ UNCHANGED <<execVars, mergeVars, buildVars, sharedVars>>

ReadDocument ==
    /\ \E name \in Drafts, start \in RangeArgs, end \in RangeArgs :
          last' = [NoOp EXCEPT !.op = "read", !.name = name,
                               !.start = start, !.end = end,
                               !.before = store,
                               !.result = read_document(Lookup(store, name),
                                                        start, end)]
    /\ UNCHANGED <<store, execVars, mergeVars, buildVars, sharedVars>>

WriteDocument ==
    /\ \E name \in Drafts, content \in WriteContents :
          /\ store' = write_document(store, content, name).store
          /\ last' = [NoOp EXCEPT
                         !.op = "write", !.name = name, !.content = content,
                         !.before = store,
                         !.result = write_document(store, content,
                                                   name).result]
    /\ UNCHANGED <<execVars, mergeVars, buildVars, sharedVars>>

\* Documents are edited while they have at most MaxLines lines.
EditDocument ==
    /\ \E name \in Drafts, inserts \in InsertChoices :
          /\ Len(readlines(Lookup(store, name).content)) <= MaxLines
          /\ store' = edit_document(store, name, inserts).store
          /\ last' = [NoOp EXCEPT
                         !.op = "edit", !.name = name, !.inserts = inserts,
                         !.before = store,
                         !.result = edit_document(store, name,
                                                  inserts).result]
    /\ UNCHANGED <<execVars, mergeVars, buildVars, sharedVars>>

CreateOutline ==
    /\ \E name \in DocNames \ Drafts, points \in PointChoices :
          /\ store' = create_outline(store, points, name).store
          /\ last' = [NoOp EXCEPT
                         !.op = "outline", !.name = name,
                         !.content = outline(points, 1), !.before = store,
                         !.result = create_outline(store, points,
                                                   name).result]
    /\ UNCHANGED <<execVars, mergeVars, buildVars, sharedVars>>

InitStore == ExecIdle /\ MergeIdle /\ BuildIdle /\ StoreIdle /\ SharedIdle

NextStore ==
    \/ Prelude
    \/ ReadDocument
    \/ WriteDocument
    \/ EditDocument
    \/ CreateOutline

SpecStore == InitStore /\ [][NextStore]_vars

(***************************************************************************)
(* Two runs writing and editing the document "draft" of their working      *)
(* directories.                                                            *)
(***************************************************************************)
\* write_document enters its with block: open("w").
OpenWrite(r) ==
    /\ sruns[r].pc = "idle"
    /\ \E content \in WriteContents :
          sruns' = [sruns EXCEPT ![r].pc = "writing", ![r].op = "write",
                                 ![r].buf = content]
    /\ sfiles' = [sfiles EXCEPT ![sruns[r].dir] = File(<< >>)]
    /\ UNCHANGED <<execVars, mergeVars, buildVars, storeVars>>

\* edit_document reads the file and runs its loop: it returns the error, or
\* goes on to save the lines it built.
EditRead(r) ==
    /\ sruns[r].pc = "idle"
    /\ Len(readlines(sfiles[sruns[r].dir].content)) <= MaxLines
    /\ \E inserts \in InsertChoices :
          LET doc == sfiles[sruns[r].dir]
              l == insert_loop(readlines(doc.content),
                               sorted(DOMAIN inserts), inserts)
          IN  sruns' =
                [sruns EXCEPT ![r] =
                    IF ~doc.exists
                    THEN [@ EXCEPT !.op = "edit", !.ret = FileNotFound]
                    ELSE IF l.kind = "err"
                    THEN [@ EXCEPT !.op = "edit",
                                   !.ret = OutOfRange(l.line)]
                    ELSE [@ EXCEPT !.op = "edit", !.pc = "edited",
                                   !.buf = writelines(l.lines)]]
    /\ UNCHANGED <<sfiles, execVars, mergeVars, buildVars, storeVars>>

\* edit_document enters its second with block: open("w").
EditOpen(r) ==
    /\ sruns[r].pc = "edited"
    /\ sruns' = [sruns EXCEPT ![r].pc = "writing"]
    /\ sfiles' = [sfiles EXCEPT ![sruns[r].dir] = File(<< >>)]
    /\ UNCHANGED <<execVars, mergeVars, buildVars, storeVars>>

\* The with block of write_document or edit_document closes the file: the
\* text goes to the file and the tool returns.
CloseWrite(r) ==
    /\ sruns[r].pc = "writing"
    /\ sfiles' = [sfiles EXCEPT ![sruns[r].dir] =
                      File(WriteAtStart(@.content, sruns[r].buf))]
    /\ sruns' = [sruns EXCEPT ![r].pc = "idle",
                              ![r].ret = Returned(<< >>)]
    /\ UNCHANGED <<execVars, mergeVars, buildVars, storeVars>>

InitShared ==
    /\ ExecIdle /\ MergeIdle /\ BuildIdle /\ StoreIdle
    /\ sfiles = [d \in Dirs |-> NoFile]
    /\ \E d \in Dirs :
          sruns = [r \in Runs |-> IdleRun(IF r = 1 THEN "tmp_a" ELSE d)]

NextShared ==
    \/ \E r \in Runs : OpenWrite(r)
    \/ \E r \in Runs : EditRead(r)
    \/ \E r \in Runs : EditOpen(r)
    \/ \E r \in Runs : CloseWrite(r)

SpecShared == InitShared /\ [][NextShared]_vars

(***************************************************************************)
(* C4.  compile() accepts exactly the well-formed node/edge sets.          *)
(***************************************************************************)
NamesUnique ==
    \A i, j \in DOMAIN bnodes : i # j => bnodes[i] # bnodes[j]

OneEntry == \E e \in bedges : e[1] = START /\ \A f \in bedges : f[1] = START => f = e

AllResolve ==
    /\ \A e \in bedges : e[2] = END \/ \E i \in DOMAIN bnodes : bnodes[i] = e[2]
    /\ \A d \in bmapping : d = END \/ \E i \in DOMAIN bnodes : bnodes[i] = d

\* C4: a graph is compiled only if its node names are unique, it has exactly
\* one entry point and every edge target and mapping destination is a
\* registered node or END; a compile that ended in CompileError had such a
\* violation; and a hop is executed only on a compiled (hence well-formed)
\* graph.
C4_CompileAcceptsOnlyWellFormed ==
    /\ bstatus = "compiled" => NamesUnique /\ OneEntry /\ AllResolve
    /\ bstatus = "CompileError" => ~(NamesUnique /\ OneEntry /\ AllResolve)
    /\ bhops > 0 => bstatus = "compiled" /\ NamesUnique /\ OneEntry /\ AllResolve

\* A compile refused for a dangling mapping destination alone.
C4_Witness ==
    /\ bstatus = "CompileError"
    /\ NamesUnique /\ OneEntry
    /\ \A e \in bedges : e[2] \in Registered \cup {END}
    /\ Dangling \in bmapping
    /\ bhops = 0

\* A well-formed graph that compiled and ran.
C4_WitnessCompiled ==
    /\ bstatus = "compiled"
    /\ bhops > 0
    /\ Len(bnodes) = 2
    /\ bmapping = {"A", END}

(***************************************************************************)
(* C6.  Merging is a fold of the ordered updates with the declared         *)
(* reducers.                                                               *)
(***************************************************************************)
RECURSIVE LoggedMessages(_)
LoggedMessages(log) ==
    IF log = << >> THEN << >>
    ELSE (IF "messages" \in DOMAIN log[1] THEN log[1].messages ELSE << >>)
         \o LoggedMessages(Tail(log))

Writers(f) == {i \in DOMAIN mlog : f \in DOMAIN mlog[i]}

LastWritten(f) ==
    IF Writers(f) = {} THEN minit[f]
    ELSE mlog[CHOOSE i \in Writers(f) : \A j \in Writers(f) : j <= i][f]

\* C6: after any ordered sequence of partial updates, and after replaying
\* it from the initial state, `messages` is the initial messages followed by
\* every update's messages in order, and each of `next`, `team_members` and
\* `current_files` is the value of the last update that wrote it (the
\* initial value when none did).
C6_MergeIsOrderedFold ==
    /\ mstate.messages = minit.messages \o LoggedMessages(mlog)
    /\ mstate.next = LastWritten("next")
    /\ mstate.team_members = LastWritten("team_members")
    /\ mstate.current_files = LastWritten("current_files")

\* Two updates that both append messages and both write `next`, with
\* different values, onto a non-empty initial state.
C6_Witness ==
    /\ Len(mlog) = 2
    /\ minit.messages # << >>
    /\ Writers("messages") = {1, 2}
    /\ Writers("next") = {1, 2}
    /\ mlog[1].next # mlog[2].next
    /\ mlog[1].messages # mlog[2].messages
    /\ Len(mstate.messages) = 4

(***************************************************************************)
(* Vocabulary of the claims about executions.                              *)
(***************************************************************************)
Started(c) == c.status # "none"

\* The hops whose snapshot was emitted (the terminal chunk is not a hop).
HopChunks(c) == Cardinality({i \in DOMAIN c.trace : c.trace[i] # END})

InHop(c) == c.active # {} \/ c.writes # << >>

RaisedLimit(c) == c.error = RecursionLimitExceeded /\ c.origin = "self"

RaisedRouting(c) == c.error = RoutingError /\ c.origin = "self"

\* The node a context is about to run, is running, or has just run and not
\* yet merged.
NextNode(c) == c.tasks \cup c.active \cup Ran(c.writes)

Workers(g) == Graph(g).nodes \ {Graph(g).cond}

\* The counter is the number of hops begun: the hops emitted, plus the hop
\* under way or the hop refused by the budget.
CounterCountsHops(c) ==
    c.counter = HopChunks(c) + (IF InHop(c) \/ RaisedLimit(c) THEN 1 ELSE 0)

(***************************************************************************)
(* C1.  The step counter and RecursionLimitExceeded.                       *)
(***************************************************************************)
\* C1 as stated: in every execution the counter starts at 0 and grows by
\* one per hop, and the execution has failed with RecursionLimitExceeded
\* exactly when its counter exceeds step_limit.
C1_FailsIffCounterExceeds ==
    \A c \in {outer, inner} :
        Started(c) =>
            /\ CounterCountsHops(c)
            /\ c.error = RecursionLimitExceeded <=> c.counter > step_limit

\* C1 as amended: the counter starts at 0 and grows by one per hop; an
\* executor raises RecursionLimitExceeded exactly when its own counter
\* exceeds step_limit, at the first hop where it does (the counter never
\* passes step_limit + 1); the only other way an execution fails with
\* RecursionLimitExceeded is that the graph behind the team node it is
\* running raised it, the outer counter being still within the budget.
C1_RaisedIffOwnCounterExceeds ==
    /\ \A c \in {outer, inner} :
          Started(c) =>
              /\ CounterCountsHops(c)
              /\ RaisedLimit(c) <=> c.counter > step_limit
              /\ c.counter <= step_limit + 1
    /\ outer.error = RecursionLimitExceeded /\ ~RaisedLimit(outer) =>
          /\ outer.origin = "inner"
          /\ RaisedLimit(inner)
          /\ inner.node \in outer.active
          /\ outer.counter <= step_limit
    /\ inner.error = RecursionLimitExceeded => RaisedLimit(inner)

\* The top-level run has failed with RecursionLimitExceeded raised inside a
\* team graph, its own counter within the budget.
C1_Witness ==
    /\ outer.status = "failed"
    /\ outer.error = RecursionLimitExceeded
    /\ outer.origin = "inner"
    /\ outer.counter = 2
    /\ step_limit = 3
    /\ inner.counter = 4
    /\ HopChunks(inner) = 3

(***************************************************************************)
(* C2.  step_limit = 2 and a supervisor that never finishes.               *)
(***************************************************************************)
Frozen(c, d) == d.state = c.state /\ d.snap = c.snap /\ d.trace = c.trace

RoutingKeys(g) == Graph(g).roster \cup {FINISH}

\* C3: as soon as the merged `next` of a supervisor hop is neither a roster
\* member nor FINISH, the execution has failed with RoutingError on that hop
\* (the supervisor's chunk is the last one emitted, nothing is scheduled or
\* running); RoutingError is raised in no other case; and after the failure
\* no context emits, merges or schedules anything.
C3_UnknownRouteFailsFast ==
    [][ /\ \A c \in {outer', inner'} :
              /\ Started(c) /\ c.state.next \notin RoutingKeys(c.graph) \cup {Unset}
                    => /\ RaisedRouting(c)
                       /\ Last(c.trace) = Graph(c.graph).cond
                       /\ NextNode(c) = {}
              /\ RaisedRouting(c)
                    => c.state.next \notin RoutingKeys(c.graph) \cup {Unset}
        /\ outer.status = "failed" => outer' = outer /\ inner' = inner
        /\ inner.status = "failed" =>
              /\ inner' = inner
              /\ Frozen(outer, outer')
              /\ outer'.tasks = outer.tasks /\ outer'.active = outer.active
              /\ outer'.counter = outer.counter
      ]_vars

\* The research supervisor answered "C" on its second turn; the error has
\* reached the top-level run.
C3_Witness ==
    /\ RaisedRouting(inner)
    /\ inner.graph = "research"
    /\ inner.decisions = <<"Translator", Outside>>
    /\ inner.trace = <<"supervisor", "Translator", "supervisor">>
    /\ outer.status = "failed"
    /\ outer.error = RoutingError

(***************************************************************************)
(* C5.  Routing reads the merged state.                                    *)
(***************************************************************************)
\* C5: after a supervisor hop (its chunk is the last one emitted) the merged
\* `next` is the supervisor's latest answer, and if that answer is a key of
\* the mapping then no RoutingError was raised and exactly the node
\* mapping[next] is scheduled, running or just run, or the run is done when
\* mapping[next] is END.
C5_RouteFollowsMergedNext ==
    \A c \in {outer, inner} :
        (Started(c) /\ c.trace # << >> /\ ~InHop(c)
            /\ c.trace[HopChunks(c)] = Graph(c.graph).cond) =>
            /\ c.state.next = Last(c.decisions)
            /\ c.snap.next = Last(c.decisions)
            /\ c.state.next \in DOMAIN Graph(c.graph).mapping =>
                  /\ ~RaisedRouting(c)
                  /\ IF Graph(c.graph).mapping[c.state.next] = END
                     THEN c.status = "done" /\ c.tasks = {}
                     ELSE c.tasks = {Graph(c.graph).mapping[c.state.next]}

\* The authoring supervisor chose NoteTaker after having chosen DocWriter:
\* the stale `next` would be DocWriter.
C5_Witness ==
    /\ inner.graph = "authoring"
    /\ inner.decisions = <<"DocWriter", "NoteTaker">>
    /\ inner.tasks = {"NoteTaker"}
    /\ inner.status = "running"
    /\ Len(inner.trace) = 3

(***************************************************************************)
(* C7.  A failing capability does not abort the run.                       *)
(***************************************************************************)
LastHop(c) == c.trace[HopChunks(c)]

AfterFailedWorker(c) ==
    /\ Started(c) /\ HopChunks(c) > 0
    /\ NodeKind(c.graph, LastHop(c)) = "worker"
    /\ Last(c.state.messages).content \in Failures

TeamHopEnds(c, d) ==
    /\ c.writes # << >> /\ d.writes = << >>
    /\ \A n \in Ran(c.writes) : NodeKind(c.graph, n) = "subgraph"

\* C8: when a team graph has reached its terminal state, the team node
\* returns the single update {messages: [last message of the inner final
\* state]}; merging a team hop lengthens the outer `messages` by exactly
\* that one message and leaves `next`, `team_members` and `current_files`
\* of the outer state as they were.
C8_TeamHopAddsOneMessage ==
    [][ /\ inner.status = "done" /\ inner'.status = "none" =>
              /\ Len(outer'.writes) = Len(outer.writes) + 1
              /\ Last(outer'.writes)[1] = inner.node
              /\ DOMAIN Last(outer'.writes)[2] = {"messages"}
              /\ Last(outer'.writes)[2].messages
                    = <<Last(inner.state.messages)>>
        /\ TeamHopEnds(outer, outer') =>
              /\ Len(outer.writes) = 1
              /\ outer'.state.messages
                    = Append(outer.state.messages,
                             outer.writes[1][2].messages[1])
              /\ outer'.state.next = outer.state.next
              /\ outer'.state.team_members = Unset
              /\ outer'.state.current_files = Unset
      ]_vars

\* The authoring team ran DocWriter and NoteTaker (three inner messages) and
\* is about to leave through join_graph.
C8_WitnessInner ==
    /\ inner.status = "done"
    /\ inner.graph = "authoring"
    /\ Len(inner.state.messages) = 3
    /\ HopChunks(inner) = 5

\* Both teams have run; the outer transcript holds the seed and one message
\* per team hop.
C8_Witness ==
    /\ outer.trace = <<"supervisor", "ResearchTeam", "supervisor",
                       "PaperWritingTeam">>
    /\ Len(outer.state.messages) = 3
    /\ outer.state.messages[2].name = "Translator"
    /\ outer.state.messages[3] = NamedMessage("ok", "NoteTaker")
    /\ outer.state.team_members = Unset

(***************************************************************************)
(* C9.  Scenario: the supervisor routes A, then B, then FINISH.            *)
(***************************************************************************)
Scenario(c, A, B) ==
    /\ c.status = "done"
    /\ A # B
    /\ c.decisions = <<A, B, FINISH>>
    /\ c.state.messages[1] = HumanMessage(Seed)

\* C9 as stated: the run emits exactly 3 snapshots and ends with
\* messages = [seed, A-result, B-result].
C9_ThreeSnapshots ==
    \A c \in {outer, inner} :
        Started(c) =>
            \A A, B \in Graph(c.graph).roster :
                Scenario(c, A, B) =>
                    /\ HopChunks(c) = 3
                    /\ Len(c.state.messages) = 3

\* C9 as amended: the run emits exactly 5 hop snapshots, one per hop in the
\* order supervisor, A, supervisor, B, supervisor, then the terminal chunk,
\* and ends with messages = [seed, A-result, B-result]: the supervisor hops
\* add no message but each emits its snapshot.
C9_FiveSnapshots ==
    \A c \in {outer, inner} :
        Started(c) =>
            \A A, B \in Graph(c.graph).roster :
                Scenario(c, A, B) =>
                    /\ HopChunks(c) = 5
                    /\ c.trace = <<Graph(c.graph).cond, A, Graph(c.graph).cond,
                                   B, Graph(c.graph).cond, END>>
                    /\ Len(c.state.messages) = 3
                    /\ c.snap = c.state
                    /\ NodeKind(c.graph, A) = "worker" =>
                          /\ c.state.messages[2].name = A
                          /\ c.state.messages[3].name = B

\* The authoring graph ran DocWriter, then NoteTaker, then finished.
C9_Witness ==
    /\ Scenario(inner, "DocWriter", "NoteTaker")
    /\ inner.graph = "authoring"
    /\ inner.state.messages = <<HumanMessage(Seed),
                                NamedMessage("ok", "DocWriter"),
                                NamedMessage("ok", "NoteTaker")>>

(***************************************************************************)
(* C10.  One node at a time.                                               *)
(***************************************************************************)
\* C10: in every context at most one node is scheduled, executing or
\* waiting to be merged; while a team graph runs, the outer graph has
\* exactly that team node executing and nothing returned or scheduled, and
\* no step of the team graph changes anything of the outer context.
C10_OneNodeAtATime ==
    [][ /\ \A c \in {outer', inner'} :
              /\ Cardinality(c.active) <= 1
              /\ Cardinality(NextNode(c)) <= 1
        /\ inner'.status = "running" =>
              /\ outer'.active = {inner'.node}
              /\ outer'.writes = << >>
              /\ outer'.tasks = {}
        /\ inner.status = "running" => outer' = outer
      ]_vars

\* DocWriter is executing inside the PaperWritingTeam hop.
C10_Witness ==
    /\ inner.status = "running"
    /\ inner.active = {"DocWriter"}
    /\ outer.active = {"PaperWritingTeam"}
    /\ outer.status = "running"

(***************************************************************************)
(* C11.  The supervisor star: entry, return edges, the only exit.          *)
(***************************************************************************)
\* C11: in every graph the first hop is the supervisor; a worker or team hop
\* is never followed by the terminal chunk or by another worker, only by a
\* supervisor hop (emitted, or the one node scheduled, running or refused by
\* the budget); the terminal chunk appears only as the last chunk of a run
\* that is done, directly after a supervisor hop whose merged `next` is
\* FINISH; and a run is done in no other way.
StarShaped(c) ==
    LET supervisor == Graph(c.graph).cond
        workers == Workers(c.graph)
        n == Len(c.trace)
    IN  /\ n > 0 => c.trace[1] = supervisor
        /\ n = 0 => NextNode(c) \subseteq {supervisor}
        /\ \A i \in 1..n :
              /\ c.trace[i] \in workers =>
                    IF i < n
                    THEN c.trace[i + 1] = supervisor
                    ELSE /\ c.status # "done"
                         /\ NextNode(c) = {supervisor}
              /\ c.trace[i] = END =>
                    /\ i = n /\ i > 1
                    /\ c.trace[i - 1] = supervisor
                    /\ c.status = "done"
        /\ c.status = "done" =>
              /\ c.trace[n] = END
              /\ c.state.next = FINISH
              /\ Last(c.decisions) = FINISH
              /\ NextNode(c) = {}

C11_SupervisorStar ==
    [](/\ Started(outer) => StarShaped(outer)
       /\ Started(inner) => StarShaped(inner))

\* The authoring graph ran NoteTaker, came back to its supervisor and left
\* through FINISH while the top-level graph is still in its team hop.
C11_Witness ==
    /\ inner.graph = "authoring"
    /\ inner.status = "done"
    /\ inner.trace = <<"supervisor", "NoteTaker", "supervisor", END>>
    /\ outer.trace = <<"supervisor">>
    /\ outer.active = {"PaperWritingTeam"}

(***************************************************************************)
(* C12.  Every run stops, within its budget.                               *)
(***************************************************************************)
\* How far a context has come: every step of a context moves it forward.
Pos(c) ==
    IF ~Started(c) THEN 0
    ELSE 1 + 2 * c.counter + 2 * HopChunks(c) + Len(c.writes)
           + (IF c.status \in {"done", "failed"} THEN 1 ELSE 0)

PosMax == 4 * step_limit + 5

\* A team run counts inside the outer hop it belongs to.
Rank == Pos(outer) * (PosMax + 1) + Pos(inner)

Stopped ==
    \/ outer.status = "done"
    \/ /\ outer.status = "failed"
       /\ outer.error \in {RecursionLimitExceeded, RoutingError}

\* No more hops emitted than the budget allows; a trace that long has ended.
WithinBudget(c, limit) ==
    /\ HopChunks(c) <= limit
    /\ Len(c.trace) <= limit + 1
    /\ Len(c.trace) = limit + 1 => Last(c.trace) = END

IsPrefix(s, t) == Len(s) <= Len(t) /\ \A i \in DOMAIN s : t[i] = s[i]

SameExecution(c, d) == Started(c) /\ Started(d) /\ d.graph = c.graph

\* C13: across every step of one execution the `messages` of the last
\* emitted snapshot, and of the accumulated state, is a prefix of what it is
\* after the step (so the messages of any earlier snapshot is a prefix of
\* those of any later one: no message is removed, moved or changed); the
\* seed stays the first message; and the last emitted snapshot is the
\* accumulated state.
C13_MessagesAppendOnly ==
    [][ /\ SameExecution(outer, outer') =>
              /\ IsPrefix(outer.snap.messages, outer'.snap.messages)
              /\ IsPrefix(outer.state.messages, outer'.state.messages)
              /\ outer'.snap.messages[1] = HumanMessage(Seed)
        /\ SameExecution(inner, inner') =>
              /\ IsPrefix(inner.snap.messages, inner'.snap.messages)
              /\ IsPrefix(inner.state.messages, inner'.state.messages)
              /\ inner'.snap.messages[1] = inner.snap.messages[1]
        /\ \A c \in {outer', inner'} : Started(c) => c.snap = c.state
      ]_vars

\* Three snapshots of the research graph later, the seed and Search's
\* result are still the first two messages, Translator's the third.
C13_Witness ==
    /\ inner.graph = "research"
    /\ inner.trace = <<"supervisor", "Search", "supervisor", "Translator">>
    /\ inner.snap.messages = <<HumanMessage(Seed), NamedMessage("ok", "Search"),
                               NamedMessage("err", "Translator")>>

(***************************************************************************)
(* C14.  Worker hops add attributed messages.                              *)
(***************************************************************************)
WorkerNames ==
    {"Search", "WebScraper", "ReferencesScraper", "Translator", "DocWriter",
     "NoteTaker"}

\* The worker hops emitted so far, in order.
WorkerHops(c) == SelectSeq(c.trace, LAMBDA n : n \in Workers(c.graph))

\* C14: the partial update a worker hop returns holds `messages` with at
\* least one Message, each carrying the name of the node that ran (one of
\* the six worker names); and in the state of a graph of workers the
\* messages after the seed are, in order, one per worker hop run so far,
\* each carrying the name of the node of that hop.
C14_WorkerMessagesAttributed ==
    [](\A c \in {outer, inner} :
        Started(c) =>
            /\ \A i \in DOMAIN c.writes :
                  NodeKind(c.graph, c.writes[i][1]) = "worker" =>
                      /\ "messages" \in DOMAIN c.writes[i][2]
                      /\ Len(c.writes[i][2].messages) >= 1
                      /\ \A j \in DOMAIN c.writes[i][2].messages :
                            /\ c.writes[i][2].messages[j].name = c.writes[i][1]
                            /\ c.writes[i][2].messages[j].name \in WorkerNames
            /\ c.graph # "super" =>
                  LET hops == WorkerHops(c)
                  IN  /\ Len(c.state.messages) = 1 + Len(hops)
                      /\ \A i \in DOMAIN hops :
                            c.state.messages[i + 1].name = hops[i])

\* WebScraper's hop is merged (its tool raised), ReferencesScraper has just
\* returned its update.
C14_Witness ==
    /\ inner.graph = "research"
    /\ inner.state.messages = <<HumanMessage(Seed),
                                NamedMessage("exc", "WebScraper")>>
    /\ inner.writes = <<<<"ReferencesScraper",
                          [messages |-> <<NamedMessage("ok",
                                                       "ReferencesScraper")>>]>>>>

(***************************************************************************)
(* C20.  Each conditional mapping covers exactly its roster and FINISH.    *)
(***************************************************************************)
AnswersInRoster(c) ==
    \A i \in DOMAIN c.decisions : c.decisions[i] \in RoutingKeys(c.graph)

\* The wiring of the three graphs, as built.
MappingsCoverRosters ==
    \A g \in GraphNames :
        /\ DOMAIN Graph(g).mapping = Graph(g).roster \cup {FINISH}
        /\ \A k \in DOMAIN Graph(g).mapping :
              Graph(g).mapping[k] \in Graph(g).nodes \cup {END}
        /\ \A r \in Graph(g).roster :
              /\ r \in Graph(g).nodes
              /\ \E k \in DOMAIN Graph(g).mapping : Graph(g).mapping[k] = r
        /\ <<START, Graph(g).cond>> \in Graph(g).edges

\* C20: in each of the three graphs the keys of the conditional mapping are
\* the supervisor's roster plus FINISH, every destination is a registered
\* node or END, and every roster member is a registered node that some key
\* leads to from the supervisor, itself entered from START; so an execution
\* whose supervisor has answered only roster members and FINISH has raised
\* no RoutingError, and after a supervisor hop that answered a roster member
\* that member is the node scheduled, running or just run.
C20_MappingCoversRoster ==
    [](/\ MappingsCoverRosters
       /\ \A c \in {outer, inner} :
             Started(c) /\ AnswersInRoster(c) =>
                 /\ ~RaisedRouting(c)
                 /\ (c.trace # << >> /\ Last(c.trace) = Graph(c.graph).cond
                       /\ c.state.next \in Graph(c.graph).roster)
                       => NextNode(c) = {c.state.next}
       /\ AnswersInRoster(outer) /\ AnswersInRoster(inner)
             => outer.error # RoutingError)

\* Both supervisors answered roster members only: the top-level one chose
\* ResearchTeam, whose supervisor chose Search and then ReferencesScraper,
\* which is running.
C20_Witness ==
    /\ outer.decisions = <<"ResearchTeam">>
    /\ outer.active = {"ResearchTeam"}
    /\ inner.decisions = <<"Search", "ReferencesScraper">>
    /\ inner.active = {"ReferencesScraper"}
    /\ inner.status = "running"

(***************************************************************************)
(* C15.  prelude reads the store and touches nothing.                      *)
(***************************************************************************)
Listed(l) == {l.paths[i] : i \in DOMAIN l.paths}

\* C15: after prelude, the returned state has the fields of the input state
\* and equals it on every field but current_files; the store is what it was
\* (no file created, changed or removed); current_files is "No files
\* written." exactly when the listing prelude obtained is empty, and
\* otherwise is the header followed by one entry per listed path; and a
\* listing that did not raise holds exactly the paths of the store, so that
\* current_files is then "No files written." exactly when the store holds
\* no file.
C15_PreludeOnlySetsCurrentFiles ==
    last.op = "prelude" =>
        /\ DOMAIN last.state_out = DOMAIN last.state_in
        /\ \A f \in Fields \ {"current_files"} :
              last.state_out[f] = last.state_in[f]
        /\ store = last.before
        /\ last.state_out.current_files = NoFilesWritten
              <=> last.listed.paths = << >>
        /\ last.listed.paths # << >> =>
              /\ last.state_out.current_files.text = FilesHeader
              /\ Len(last.state_out.current_files.entries)
                    = Len(last.listed.paths)
              /\ \A i \in DOMAIN last.listed.paths :
                    last.state_out.current_files.entries[i]
                        = <<" - ", last.listed.paths[i]>>
        /\ last.listed.ok =>
              /\ Listed(last.listed) = rglob(last.before)
              /\ Len(last.listed.paths) = Cardinality(rglob(last.before))
              /\ last.state_out.current_files = NoFilesWritten
                    <=> rglob(last.before) = {}

\* prelude ran on a store holding the draft and the outline and listed both.
C15_Witness ==
    /\ last.op = "prelude"
    /\ last.listed.ok
    /\ Listed(last.listed) = {"draft", "notes"}
    /\ Len(last.state_out.current_files.entries) = 2
    /\ last.state_in.next = "DocWriter"
    /\ store.files["draft"].content = <<"x", NL, "a">>

(***************************************************************************)
(* C16.  read_document and its line range.                                 *)
(***************************************************************************)
\* C16: reading an existing document returns exactly its lines from index
\* start (0 when start is not supplied) up to but excluding end (to the last
\* line when end is not supplied), joined as read_document joins them.
C16_ReadHonorsRange ==
    (last.op = "read" /\ Lookup(last.before, last.name).exists) =>
        last.result
            = Returned(join(NL,
                  Slice(readlines(Lookup(last.before, last.name).content),
                        last.start, last.end)))

(***************************************************************************)
(* C17.  A failed edit saves nothing.                                      *)
(***************************************************************************)
\* The line numbers that are out of range when their turn comes, the smaller
\* ones having been inserted.
BadKeys(len, K) ==
    {k \in K : k < 1 \/ k > len + Cardinality({j \in K : j < k}) + 1}

\* C17: edit_document on an existing document returns success or the
\* out-of-range error, never anything else; it returns the error exactly
\* when some line number is out of range at its turn, the error names the
\* first such line number, and the store is then exactly what it was before
\* the call (the insertions made before the failing one are not saved); a
\* successful edit changes no other document.
C17_FailedEditSavesNothing ==
    (last.op = "edit" /\ Lookup(last.before, last.name).exists) =>
        LET bad == BadKeys(
                      Len(readlines(Lookup(last.before, last.name).content)),
                      DOMAIN last.inserts)
        IN  /\ last.result.kind \in {"ok", "err"}
            /\ last.result.kind = "err" <=> bad # {}
            /\ bad # {} =>
                  /\ last.result = OutOfRange(Min(bad))
                  /\ store = last.before
            /\ \A n \in DocNames \ {last.name} :
                  store.files[n] = last.before.files[n]

\* Line 1 was in range and line 3 was not: the error names 3 and the empty
\* draft is still empty.
C17_Witness ==
    /\ last.op = "edit"
    /\ DOMAIN last.inserts = {1, 3}
    /\ last.result = OutOfRange(3)
    /\ last.before.files["draft"] = File(<< >>)
    /\ store.files["draft"] = File(<< >>)
    /\ store.files["notes"].exists

(***************************************************************************)
(* C19.  Where a successful edit puts the inserted texts.                  *)
(***************************************************************************)
\* The lines of `saved` at the positions that are not in K, in order.
Others(saved, K) ==
    LET at == sorted(DOMAIN saved \ K)
    IN  [i \in DOMAIN at |-> saved[at[i]]]

\* C19: after a successful edit of an existing document, every line number k
\* of the insertions is a line of the saved document and that line is the
\* text given for k; the saved document has one line more per insertion;
\* and its other lines are the original lines in their order.
C19_InsertedTextAtItsLine ==
    (last.op = "edit" /\ last.result.kind = "ok"
        /\ Lookup(last.before, last.name).exists) =>
        LET saved == readlines(store.files[last.name].content)
            lines == readlines(last.before.files[last.name].content)
        IN  /\ \A k \in DOMAIN last.inserts :
                  /\ k \in DOMAIN saved
                  /\ saved[k] = last.inserts[k] \o <<NL>>
            /\ Len(saved) = Len(lines) + Cardinality(DOMAIN last.inserts)
            /\ Others(saved, DOMAIN last.inserts) = lines

(***************************************************************************)
(* C18.  Two runs and one store.                                           *)
(***************************************************************************)
\* C18: a step changes the files of a working directory only if it is a
\* step of a run working in that directory, and changes one run only; a run
\* that has opened the document for writing can always close it, and an
\* idle run can always start writing, whatever the other run is doing; and
\* when a write_document or the saving part of an edit_document completes,
\* the document holds exactly the content that operation wrote.
C18_LastWriterWins ==
    [][ /\ \A d \in Dirs :
              sfiles'[d] # sfiles[d] =>
                  \E r \in Runs : sruns[r].dir = d /\ sruns'[r] # sruns[r]
        /\ \A r, q \in Runs :
              (sruns'[r] # sruns[r] /\ sruns'[q] # sruns[q]) => r = q
        /\ \A r \in Runs :
              /\ sruns[r].pc = "writing" => ENABLED CloseWrite(r)
              /\ sruns[r].pc = "idle" => ENABLED OpenWrite(r)
        /\ \A r \in Runs :
              (sruns[r].pc = "writing" /\ sruns'[r].pc = "idle") =>
                  sfiles'[sruns[r].dir] = File(sruns[r].buf)
      ]_vars

(***************************************************************************)
(* C21.  Project-in passes the last outer message and nothing else.        *)
(***************************************************************************)
TeamNodes == {"ResearchTeam", "PaperWritingTeam"}

\* The state a team graph starts from, given the text handed to it.
FreshState(n, text) ==
    [messages      |-> <<HumanMessage(text)>>,
     team_members  |-> IF n = "PaperWritingTeam" THEN AuthoringMembers
                       ELSE Unset,
     next          |-> Unset,
     current_files |-> Unset]

\* C21: at every ResearchTeam or PaperWritingTeam hop the team graph's
\* execution starts from a fresh state whose `messages` holds exactly one
\* message, carrying the content (and not the name) of the last message of
\* the outer state, with `next` unset, no hop counted, nothing emitted and
\* no supervisor answer; the outer state is not touched by the start; and
\* as long as the team graph runs its first message stays that one, so
\* neither the earlier outer messages nor the messages or `next` of a
\* previous run of the same graph reach it.  A team node that is executing
\* with no team graph running can always start it.
C21_ProjectInPassesLastMessage ==
    [][ /\ (~Started(inner) /\ Started(inner')) =>
              LET text == Last(outer.state.messages).content
              IN  /\ inner'.node \in TeamNodes \cap outer.active
                  /\ inner'.graph = TeamGraph(inner'.node)
                  /\ inner'.state = FreshState(inner'.node, text)
                  /\ Len(inner'.state.messages) = 1
                  /\ inner'.snap = inner'.state
                  /\ inner'.counter = 0
                  /\ inner'.trace = << >>
                  /\ inner'.writes = << >>
                  /\ inner'.decisions = << >>
                  /\ inner'.seen = NoMessage
                  /\ outer' = outer
        /\ (Started(inner') /\ outer'.status = "running") =>
              /\ inner'.state.messages[1]
                    = HumanMessage(Last(outer'.state.messages).content)
              /\ inner'.node \in outer'.active
        /\ (outer'.status = "running" /\ outer'.active \cap TeamNodes # {}
              /\ ~Started(inner')) => (ENABLED EnterTeam)'
      ]_vars

\* ResearchTeam runs for the second time: the outer state holds the seed
\* and the first run's result (Search's), and the research graph starts
\* from that result's content alone, without its name, with `next` unset.
C21_Witness ==
    /\ outer.trace = <<"supervisor", "ResearchTeam", "supervisor">>
    /\ outer.state.messages = <<HumanMessage(Seed),
                                NamedMessage("ok", "Search")>>
    /\ outer.active = {"ResearchTeam"}
    /\ inner.graph = "research"
    /\ inner.state = FreshState("ResearchTeam", "ok")
    /\ inner.trace = << >>
    /\ inner.counter = 0


====
